---- MODULE Spec2Model ----
(***************************************************************************)
(* golden_marshmallows: the case converter (camelcase / snakecase), the    *)
(* case-changing schema and the auto-generating GoldenSchema.              *)
(*                                                                         *)
(* Identifiers are sequences of one-character strings, so that the string  *)
(* functions can be computed character by character as the code does.      *)
(***************************************************************************)
EXTENDS Integers, Sequences, FiniteSets, TLC

VARIABLES
    caseIn,     \* case converter: the string first passed in
    caseOut,    \* case converter: the current result
    caseCalls,  \* case converter: the functions applied so far, in order
    args,       \* constructor arguments of the schema under construction
    pc,         \* "idle" | "new" | "ready" | "failed" | "dumped" | "loaded"
    ctor,       \* outcome of the constructor: [error, steps, schema]
    dumped,     \* outcome of the last dump: [error, out, obj]
    loaded      \* outcome of the last load: [error, names, obj, data, from]

vars == <<caseIn, caseOut, caseCalls, args, pc, ctor, dumped, loaded>>
caseVars == <<caseIn, caseOut, caseCalls>>
schemaVars == <<args, pc, ctor, dumped, loaded>>

-----------------------------------------------------------------------------
(* Bounds of the model *)

\* longest string handed to the case converter
MaxLen == 5
\* number of converter calls chained on one input
MaxCalls == 2
\* deepest nesting of nested_map below the root class
MaxDepth == 2

-----------------------------------------------------------------------------
(* Characters *)

Lowers == <<"a","b","c","d","e","f","g","h","i","j","k","l","m",
            "n","o","p","q","r","s","t","u","v","w","x","y","z">>
Uppers == <<"A","B","C","D","E","F","G","H","I","J","K","L","M",
            "N","O","P","Q","R","S","T","U","V","W","X","Y","Z">>

\* [A-Z]
IsUpper(c) == \E i \in DOMAIN Uppers : Uppers[i] = c
IsLower(c) == \E i \in DOMAIN Lowers : Lowers[i] = c

\* str.lower() on one character
LowerChar(c) ==
    IF IsUpper(c) THEN Lowers[CHOOSE i \in DOMAIN Uppers : Uppers[i] = c] ELSE c

\* str.upper() on one character
UpperChar(c) ==
    IF IsLower(c) THEN Uppers[CHOOSE i \in DOMAIN Lowers : Lowers[i] = c] ELSE c

\* str.lower()
Lower(s) == [i \in DOMAIN s |-> LowerChar(s[i])]

\* str.capitalize(): first character upper-cased, all the others lower-cased
Capitalize(s) ==
    [i \in DOMAIN s |-> IF i = 1 THEN UpperChar(s[i]) ELSE LowerChar(s[i])]

\* the regular expression's '.', any character but a newline
IsDot(c) == c # "\n"

-----------------------------------------------------------------------------
(* camelcase *)

RECURSIVE SplitFrom(_, _, _)
\* string.split("_") from position i on, cur being the segment under way
SplitFrom(s, i, cur) ==
    IF i > Len(s) THEN <<cur>>
    ELSE IF s[i] = "_" THEN <<cur>> \o SplitFrom(s, i + 1, <<>>)
    ELSE SplitFrom(s, i + 1, Append(cur, s[i]))

Split(s) == SplitFrom(s, 1, <<>>)

RECURSIVE Join(_)
\* "".join(parts)
Join(parts) ==
    IF parts = <<>> THEN <<>> ELSE Head(parts) \o Join(Tail(parts))

camelcase(string) ==
    IF ~(\E i \in DOMAIN string : string[i] = "_") THEN string
    ELSE LET parts == Split(string)
         IN  Join([i \in DOMAIN parts |->
                     IF i > 1 THEN Capitalize(parts[i]) ELSE parts[i]])

-----------------------------------------------------------------------------
(* snakecase *)

\* The lengths k for which ([^A-Z]+?)([A-Z])(.) matches at position i with a
\* first group of k characters.
Group1Lens(s, i) ==
    {k \in 1..Len(s) :
        /\ i + k + 1 <= Len(s)
        /\ \A m \in i..(i + k - 1) : ~IsUpper(s[m])
        /\ IsUpper(s[i + k])
        /\ IsDot(s[i + k + 1])}

\* the lazy quantifier takes the shortest first group that lets the rest match
Group1Len(s, i) ==
    CHOOSE k \in Group1Lens(s, i) : \A k2 \in Group1Lens(s, i) : k <= k2

RECURSIVE SubFrom(_, _)
\* re.sub(r'([^A-Z]+?)([A-Z])(.)', r'\1_\2\3', s), scanning from position i:
\* leftmost matches, none overlapping; an unmatched character is copied.
SubFrom(s, i) ==
    IF i > Len(s) THEN <<>>
    ELSE IF Group1Lens(s, i) # {}
         THEN LET k == Group1Len(s, i)
              IN  SubSeq(s, i, i + k - 1) \o <<"_", s[i + k], s[i + k + 1]>>
                      \o SubFrom(s, i + k + 2)
         ELSE <<s[i]>> \o SubFrom(s, i + 1)

snakecase(string) == Lower(SubFrom(string, 1))

-----------------------------------------------------------------------------
(* Ordered dictionaries: a sequence of [k, v] entries in insertion order *)

Has(d, k) == \E i \in DOMAIN d : d[i].k = k

Get(d, k) == d[CHOOSE i \in DOMAIN d : d[i].k = k].v

\* d[k] = v: a new key is appended, an existing key keeps its position
Put(d, k, v) ==
    IF Has(d, k)
    THEN [i \in DOMAIN d |-> IF d[i].k = k THEN [k |-> k, v |-> v] ELSE d[i]]
    ELSE Append(d, [k |-> k, v |-> v])

Keys(d) == {d[i].k : i \in DOMAIN d}

Reverse(q) == [i \in DOMAIN q |-> q[Len(q) + 1 - i]]

\* None / an unset name
NoName == <<>>

\* Python's `a or b` on names
OrName(a, b) == IF a # NoName THEN a ELSE b

-----------------------------------------------------------------------------
(* Values: objects, mappings and scalars share one shape.                    *)
(*   scalar  [kind |-> "scalar", tok |-> token,  elems |-> <<>>]             *)
(*   object  [kind |-> "object", tok |-> "",     elems |-> <<node>>]         *)
(*   list    [kind |-> "list",   tok |-> "",     elems |-> <<node, ...>>]    *)
(* A node is [cls |-> class name or "dict", attrs |-> dictionary].           *)

Scalar(tok) == [kind |-> "scalar", tok |-> tok, elems |-> <<>>]
ObjectVal(node) == [kind |-> "object", tok |-> "", elems |-> <<node>>]
ListVal(nodes) == [kind |-> "list", tok |-> "", elems |-> nodes]
None == Scalar("None")
Node(cls, attrs) == [cls |-> cls, attrs |-> attrs]

IntTokens == {"1", "2"}
StrTokens == {"x", "y", "RED", "manual value"}
EnumMembers == {"E.RED"}
ListTokens == {"[1]", "[2]", "[E.RED]"}

\* a list of enumeration names, or of null, as encoding emits it
EncodedEnumLists == {"[RED]", "[None]"}

\* enum.name
EnumName(tok) == IF tok = "E.RED" THEN "RED" ELSE tok

-----------------------------------------------------------------------------
(* marshmallow fields *)

Field(codec, allow_none) ==
    [codec |-> codec, container |-> <<>>, attribute |-> NoName,
     load_from |-> NoName, dump_to |-> NoName, allow_none |-> allow_none,
     required |-> FALSE, snake_to_camel |-> FALSE, camel_to_snake |-> FALSE,
     nested |-> <<>>, many |-> FALSE]

\* the column types of schema.py's imports, and one it does not import
SqlTypes == {"TEXT", "String", "JSON", "ENUM", "INTEGER", "Integer", "BIGINT",
             "TIMESTAMP", "DATE", "ARRAY", "pgARRAY", "BOOLEAN", "Boolean",
             "UUID"}

\* a column type schema.py does not import
UnknownTypes == {"Float"}

CodecFor(t) ==
    CASE t \in {"TEXT", "String"} -> "fields.String"
      [] t = "JSON" -> "fields.Raw"
      [] t = "ENUM" -> "EnumField"
      [] t \in {"INTEGER", "Integer", "BIGINT"} -> "fields.Integer"
      [] t = "TIMESTAMP" -> "fields.DateTime"
      [] t = "DATE" -> "fields.Date"
      [] t \in {"ARRAY", "pgARRAY"} -> "fields.List"
      [] t \in {"BOOLEAN", "Boolean"} -> "fields.Boolean"
      [] t = "UUID" -> "fields.UUID"

\* a type table that falls back to the raw codec for a type it does not know
FIELD_TYPE_MAP_Fallback ==
    [t \in SqlTypes \cup UnknownTypes |->
        IF t \in SqlTypes THEN CodecFor(t) ELSE "fields.Raw"]

FIELD_TYPE_MAP == [t \in SqlTypes |-> CodecFor(t)]

-----------------------------------------------------------------------------
(* Construction *)

Failure(error, steps) == [error |-> error, steps |-> steps, schema |-> <<>>]

\* the class-level declared fields of a schema subclass, copied per instance:
\* every manual field is a fields.Function, as in the tests
DeclaredFields(manual) ==
    [i \in DOMAIN manual |-> [k |-> manual[i], v |-> Field("fields.Function", FALSE)]]

\* the external name alter_case gives the field declared as `name`
AlteredName(self, name, old) ==
    IF self.snake_to_camel THEN camelcase(name)
    ELSE IF self.camel_to_snake THEN snakecase(name)
    ELSE old

AlterEntry(self, e) ==
    [k |-> e.k,
     v |-> [e.v EXCEPT !.load_from = AlteredName(self, e.k, e.v.load_from),
                       !.dump_to = AlteredName(self, e.k, e.v.dump_to)]]

\* The declared fields are the very objects self.fields holds, so both maps
\* show the renaming.
alter_case(self) ==
    [self EXCEPT
        !.declared_fields = [i \in DOMAIN self.declared_fields |->
                                AlterEntry(self, self.declared_fields[i])],
        !.fields = [i \in DOMAIN self.fields |->
                                AlterEntry(self, self.fields[i])]]

NoClass == [kind |-> "none", name |-> "", columns |-> <<>>, rels |-> {},
            manual |-> <<>>]

CasingCheckFailsOnEither(snake_to_camel, camel_to_snake) ==
    snake_to_camel \/ camel_to_snake

CasingCheckFails(snake_to_camel, camel_to_snake) ==
    snake_to_camel /\ camel_to_snake

CaseChangingSchemaInit(manual, snake_to_camel, camel_to_snake, many) ==
    IF CasingCheckFails(snake_to_camel, camel_to_snake)
    THEN Failure("ValueError", <<"casing_check">>)
    ELSE LET self == [sqlalchemy_cls |-> NoClass,
                      snake_to_camel |-> snake_to_camel,
                      camel_to_snake |-> camel_to_snake,
                      new_obj |-> FALSE,
                      many |-> many,
                      strict |-> TRUE,
                      declared_fields |-> DeclaredFields(manual),
                      fields |-> DeclaredFields(manual)]
         IN  [error |-> "",
              steps |-> <<"casing_check", "schema_init", "alter_case">>,
              schema |-> <<alter_case(self)>>]

\* EnumField(snake_to_camel=..., camel_to_snake=..., allow_none=...)
EnumFieldInit(snake_to_camel, camel_to_snake, allow_none) ==
    IF snake_to_camel /\ camel_to_snake
    THEN [error |-> "Exception", field |-> <<>>]
    ELSE [error |-> "",
          field |-> <<[Field("EnumField", allow_none) EXCEPT
                          !.snake_to_camel = snake_to_camel,
                          !.camel_to_snake = camel_to_snake]>>]

\* EnumField(): snake_to_camel=False, camel_to_snake=True; a field's
\* allow_none is False when it is not given
EnumFieldDefault == EnumFieldInit(FALSE, TRUE, FALSE).field[1]

\* fields.List(container, ...) instantiates the container class with no
\* arguments, which fields.List itself does not accept
ListField(container, allow_none) ==
    [Field("fields.List", allow_none) EXCEPT
        !.container = <<IF container = "EnumField" THEN EnumFieldDefault
                        ELSE Field(container, FALSE)>>]

NestedField(schema, many) ==
    [Field("fields.Nested", FALSE) EXCEPT !.nested = <<schema>>, !.many = many]

AllowNoneAlways(val) == TRUE

\* allow_none=val.nullable
AllowNone(val) == val.nullable

RECURSIVE GenColumns(_, _, _, _)
\* the loop of generate_fields over columns[i..]
GenColumns(self, columns, i, new_fields) ==
    IF i > Len(columns) THEN [error |-> "", new_fields |-> new_fields]
    ELSE LET val == columns[i] IN
         IF val.type \notin DOMAIN FIELD_TYPE_MAP
         THEN [error |-> "KeyError", new_fields |-> new_fields]
         ELSE IF val.type \in {"ARRAY", "pgARRAY"}
         THEN IF val.item_type \notin DOMAIN FIELD_TYPE_MAP
              THEN [error |-> "KeyError", new_fields |-> new_fields]
              ELSE IF FIELD_TYPE_MAP[val.item_type] = "fields.List"
              THEN [error |-> "TypeError", new_fields |-> new_fields]
              ELSE GenColumns(self, columns, i + 1,
                       Put(new_fields, val.name,
                           ListField(FIELD_TYPE_MAP[val.item_type], AllowNone(val))))
         ELSE IF val.type = "ENUM"
         THEN LET made == EnumFieldInit(self.snake_to_camel, self.camel_to_snake,
                                        AllowNone(val))
              IN  IF made.error # ""
                  THEN [error |-> made.error, new_fields |-> new_fields]
                  ELSE GenColumns(self, columns, i + 1,
                                  Put(new_fields, val.name, made.field[1]))
         ELSE GenColumns(self, columns, i + 1,
                  Put(new_fields, val.name,
                      Field(FIELD_TYPE_MAP[val.type], AllowNone(val))))

\* the identity attribute's name, 'id'
ID == <<"i", "d">>

AddFieldsSkip(self, name) ==
    Has(self.declared_fields, name) \/ (self.new_obj /\ name = ID)

AddFieldsKeyUncased(self, name) == name

AddFieldsKey(self, name) ==
    IF self.snake_to_camel THEN camelcase(name)
    ELSE IF self.camel_to_snake THEN snakecase(name)
    ELSE name

RECURSIVE AddFieldsFrom(_, _, _)
\* the loop of add_fields over new_fields[i..]
AddFieldsFrom(self, new_fields, i) ==
    IF i > Len(new_fields) THEN self
    ELSE LET name == new_fields[i].k
             field == [new_fields[i].v EXCEPT !.attribute = name]
         IN  IF AddFieldsSkip(self, name)
             THEN AddFieldsFrom(self, new_fields, i + 1)
             ELSE AddFieldsFrom(
                      [self EXCEPT
                          !.fields = Put(self.fields, AddFieldsKey(self, name), field),
                          !.declared_fields =
                              Put(self.declared_fields, AddFieldsKey(self, name), field)],
                      new_fields, i + 1)

add_fields(self, new_fields) == AddFieldsFrom(self, new_fields, 1)

\* the flags generate_nested_fields hands to the nested GoldenSchema
NestedNewObjDropped(self) == FALSE

NestedNewObj(self) == self.new_obj
NestedSnakeToCamel(self) == self.snake_to_camel
NestedCamelToSnake(self) == self.camel_to_snake

RECURSIVE GoldenSchemaInit(_, _, _, _, _, _, _)
RECURSIVE GenNested(_, _, _, _)

\* the loop of generate_nested_fields over nested_map[i..]
GenNested(self, nested_map, i, new_fields) ==
    IF i > Len(nested_map) THEN [error |-> "", new_fields |-> new_fields]
    ELSE LET key == nested_map[i].k
             val == nested_map[i].v
             sub == GoldenSchemaInit(<<>>, val.class, val.nested_map,
                                     NestedNewObj(self),
                                     NestedSnakeToCamel(self),
                                     NestedCamelToSnake(self), val.many)
         IN  IF sub.error # ""
             THEN [error |-> sub.error, new_fields |-> new_fields]
             ELSE GenNested(self, nested_map, i + 1,
                      Put(new_fields, key, NestedField(sub.schema[1], val.many)))

generate_fields(self, columns, nested_map) ==
    LET cols == GenColumns(self, columns, 1, <<>>)
    IN  IF cols.error # "" THEN cols
        ELSE GenNested(self, nested_map, 1, cols.new_fields)

\* sqlalchemy_cls.__mapper__ exists on a mapped class only
HasMapper(sqlalchemy_cls) == sqlalchemy_cls.kind = "class"

\* GoldenSchema.__init__ of a (sub)class declaring the fields `manual`
GoldenSchemaInit(manual, sqlalchemy_cls, nested_map, new_obj, snake_to_camel, camel_to_snake, many) ==
    LET base == CaseChangingSchemaInit(manual, snake_to_camel, camel_to_snake, many)
    IN  IF base.error # "" THEN base
        ELSE LET self == [base.schema[1] EXCEPT !.new_obj = new_obj,
                                                 !.sqlalchemy_cls = sqlalchemy_cls]
             IN  IF ~HasMapper(sqlalchemy_cls)
                 THEN Failure("AttributeError", Append(base.steps, "introspect"))
                 ELSE LET gen == generate_fields(self, sqlalchemy_cls.columns,
                                                 nested_map)
                      IN  IF gen.error # ""
                          THEN Failure(gen.error,
                                       base.steps \o <<"introspect", "generate_fields">>)
                          ELSE [error |-> "",
                                steps |-> base.steps \o
                                    <<"introspect", "generate_fields", "add_fields">>,
                                schema |-> <<add_fields(self, gen.new_fields)>>]

-----------------------------------------------------------------------------
(* Encoding: Schema.dump *)

DateTokens == {"d1"}

IsStrToken(tok) ==
    tok \notin IntTokens \cup EnumMembers \cup ListTokens \cup EncodedEnumLists
            \cup DateTokens \cup {"None"}

\* a codec's _serialize on a value that is not None
SerializeScalar(codec, tok) ==
    CASE codec = "fields.Integer" ->
            IF tok \in IntTokens THEN [error |-> "", tok |-> tok]
            ELSE [error |-> "ValidationError", tok |-> tok]
      [] codec = "fields.String" ->
            [error |-> "", tok |-> IF IsStrToken(tok) THEN tok ELSE "str:" \o tok]
      [] codec = "fields.List" ->
            IF tok \in ListTokens THEN [error |-> "", tok |-> tok]
            ELSE [error |-> "TypeError", tok |-> tok]
      [] codec \in {"fields.DateTime", "fields.Date"} ->
            IF tok \in DateTokens THEN [error |-> "", tok |-> "iso:" \o tok]
            ELSE [error |-> "AttributeError", tok |-> tok]
      [] codec = "fields.UUID" -> [error |-> "", tok |-> "str:" \o tok]
      [] OTHER -> [error |-> "", tok |-> tok]

Emit(val) == [error |-> "", missing |-> FALSE, val |-> val]
Skip == [error |-> "", missing |-> TRUE, val |-> None]
Raise(error) == [error |-> error, missing |-> FALSE, val |-> None]

\* the attribute EnumField._serialize reads, given the field's key attr
EnumAttribute(field, attr) ==
    LET attribute == IF field.snake_to_camel THEN snakecase(attr) ELSE attr
    IN  IF field.camel_to_snake THEN camelcase(attr) ELSE attribute

EnumSerialize(field, attr, obj) ==
    LET attribute == EnumAttribute(field, attr)
    IN  IF ~Has(obj.attrs, attribute) THEN Raise("AttributeError")
        ELSE LET enum == Get(obj.attrs, attribute)
             IN  IF enum = None THEN Emit(None)
                 ELSE IF enum.kind = "scalar" /\ enum.tok \in EnumMembers
                 THEN Emit(Scalar(EnumName(enum.tok)))
                 ELSE Raise("AttributeError")

RECURSIVE Marshal(_, _, _)
RECURSIVE MarshalList(_, _, _, _, _)
RECURSIVE MarshalFrom(_, _, _, _, _, _)

\* fields.List._serialize over a container's result: every element of the
\* list is the container's _serialize(each, attr, obj)
ListOf(each) ==
    IF each.error # "" THEN Raise(each.error)
    ELSE Emit(Scalar("[" \o each.val.tok \o "]"))

\* Field.serialize(attr, obj) of the field stored under the key attr
Serialize(field, attr, obj, rev) ==
    IF field.codec = "fields.Function" THEN Emit(Scalar("manual value"))
    ELSE IF field.codec = "EnumField" THEN EnumSerialize(field, attr, obj)
    ELSE LET name == OrName(field.attribute, attr) IN
         IF ~Has(obj.attrs, name) THEN Skip
         ELSE LET value == Get(obj.attrs, name) IN
              IF value = None THEN Emit(None)
              ELSE IF field.codec = "fields.Nested"
              THEN LET r == MarshalList(field.nested[1], value.elems, 1, rev, <<>>)
                   IN  IF r.error # "" THEN Raise(r.error)
                       ELSE IF field.many THEN Emit(ListVal(r.out))
                       ELSE Emit(ObjectVal(r.out[1]))
              ELSE LET r == SerializeScalar(field.codec, value.tok)
                   IN  IF r.error # "" THEN Raise(r.error)
                       ELSE IF field.codec = "fields.List"
                               /\ field.container[1].codec = "EnumField"
                       THEN ListOf(EnumSerialize(field.container[1], attr, obj))
                       ELSE Emit(Scalar(r.tok))

\* the nested schema's dump of objs[i..]
MarshalList(schema, objs, i, rev, out) ==
    IF i > Len(objs) THEN [error |-> "", out |-> out]
    ELSE LET r == Marshal(schema, objs[i], rev)
         IN  IF r.error # "" THEN [error |-> r.error, out |-> out]
             ELSE MarshalList(schema, objs, i + 1, rev, Append(out, r.out))

\* the marshaller's loop over the fields fs[i..]: a later field that emits a
\* key already emitted replaces its value
MarshalFrom(schema, fs, i, obj, rev, out) ==
    IF i > Len(fs) THEN [error |-> "", out |-> Node("dict", out)]
    ELSE LET key == OrName(fs[i].v.dump_to, fs[i].k)
             r == Serialize(fs[i].v, fs[i].k, obj, rev)
         IN  IF r.error # "" THEN [error |-> r.error, out |-> Node("dict", out)]
             ELSE IF r.missing THEN MarshalFrom(schema, fs, i + 1, obj, rev, out)
             ELSE MarshalFrom(schema, fs, i + 1, obj, rev, Put(out, key, r.val))

\* Schema.dump(obj): the fields are rebuilt from declared_fields, whose keys
\* are iterated as a set, in declaration order or (rev) the opposite one
Marshal(schema, obj, rev) ==
    MarshalFrom(schema,
                IF rev THEN Reverse(schema.declared_fields)
                ELSE schema.declared_fields,
                1, obj, rev, <<>>)

-----------------------------------------------------------------------------
(* Decoding: Schema.load and make_sqlalchemy_object *)

\* a codec's _deserialize on a value that is not None
DeserializeScalar(codec, val) ==
    CASE codec = "fields.Integer" ->
            IF val.kind = "scalar" /\ val.tok \in IntTokens THEN "" ELSE "ValidationError"
      [] codec = "fields.String" ->
            IF val.kind = "scalar" /\ IsStrToken(val.tok) THEN "" ELSE "ValidationError"
      [] codec = "fields.List" ->
            IF val.kind = "scalar" /\ val.tok \in ListTokens THEN "" ELSE "ValidationError"
      [] codec \in {"fields.DateTime", "fields.Date"} ->
            IF val.kind = "scalar" /\ val.tok \in {"iso:" \o t : t \in DateTokens}
            THEN "" ELSE "ValidationError"
      [] OTHER -> ""

DecodeScalar(codec, val) ==
    IF codec \in {"fields.DateTime", "fields.Date"}
    THEN Scalar(CHOOSE t \in DateTokens : "iso:" \o t = val.tok)
    ELSE val

ClassAttributes(cls) == {cls.columns[i].name : i \in DOMAIN cls.columns} \cup cls.rels

\* sqlalchemy_cls(**data): the declarative constructor refuses a keyword that
\* is no attribute of the class
make_sqlalchemy_object(self, data) ==
    IF self.sqlalchemy_cls.kind # "class"
    THEN [error |-> "", obj |-> <<Node("dict", data)>>]
    ELSE IF Keys(data) \subseteq ClassAttributes(self.sqlalchemy_cls)
    THEN [error |-> "", obj |-> <<Node(self.sqlalchemy_cls.name, data)>>]
    ELSE [error |-> "TypeError", obj |-> <<>>]

\* whether a key missing from the input is an error
MissingIsError(field) == field.required

\* whether a null in the input is an error
NullIsError(field) == ~field.allow_none

RECURSIVE Unmarshal(_, _)
RECURSIVE UnmarshalList(_, _, _, _)
RECURSIVE UnmarshalFrom(_, _, _, _, _, _)

\* Field.deserialize(raw)
Deserialize(field, raw) ==
    IF raw = None
    THEN IF NullIsError(field) THEN Raise("ValidationError") ELSE Emit(None)
    ELSE IF field.codec \in {"fields.Function", "EnumField"} THEN Emit(raw)
    ELSE IF field.codec = "fields.List" /\ field.container[1].codec = "EnumField"
    THEN IF raw.kind # "scalar" \/ raw.tok \notin ListTokens \cup EncodedEnumLists
            \/ (raw.tok = "[None]" /\ NullIsError(field.container[1]))
         THEN Raise("ValidationError")
         ELSE Emit(raw)
    ELSE IF field.codec = "fields.Nested"
    THEN IF (field.many /\ raw.kind # "list") \/ (~field.many /\ raw.kind # "object")
         THEN Raise("ValidationError")
         ELSE LET r == UnmarshalList(field.nested[1], raw.elems, 1, <<>>)
              IN  IF r.error # "" THEN Raise(r.error)
                  ELSE IF field.many THEN Emit(ListVal(r.out))
                  ELSE Emit(ObjectVal(r.out[1]))
    ELSE IF DeserializeScalar(field.codec, raw) # ""
         THEN Raise(DeserializeScalar(field.codec, raw))
         ELSE Emit(DecodeScalar(field.codec, raw))

\* the nested schema's load of datas[i..]
UnmarshalList(schema, datas, i, out) ==
    IF i > Len(datas) THEN [error |-> "", out |-> out]
    ELSE LET r == Unmarshal(schema, datas[i])
         IN  IF r.error # "" THEN [error |-> r.error, out |-> out]
             ELSE UnmarshalList(schema, datas, i + 1, out \o r.obj)

\* the unmarshaller's loop over the fields fs[i..]; names collects the keys of
\* the fields that failed, items the decoded values by attribute name
UnmarshalFrom(schema, fs, i, data, names, items) ==
    IF i > Len(fs) THEN [error |-> "", names |-> names, items |-> items]
    ELSE LET attr_name == fs[i].k
             field == fs[i].v
             field_name == IF ~Has(data.attrs, attr_name) /\ field.load_from # NoName
                           THEN field.load_from ELSE attr_name
             key == OrName(field.attribute, attr_name)
         IN  IF ~Has(data.attrs, field_name)
             THEN IF MissingIsError(field)
                  THEN UnmarshalFrom(schema, fs, i + 1, data,
                                     names \cup {field_name}, items)
                  ELSE UnmarshalFrom(schema, fs, i + 1, data, names, items)
             ELSE LET r == Deserialize(field, Get(data.attrs, field_name))
                  IN  IF r.error = "ValidationError"
                      THEN UnmarshalFrom(schema, fs, i + 1, data,
                                         names \cup {field_name}, items)
                      ELSE IF r.error # ""
                      THEN [error |-> r.error, names |-> names, items |-> items]
                      ELSE UnmarshalFrom(schema, fs, i + 1, data, names,
                                         Put(items, key, r.val))

\* Schema.load(data) in strict mode, then the post_load hook
Unmarshal(schema, data) ==
    LET r == UnmarshalFrom(schema, schema.fields, 1, data, {}, <<>>)
    IN  IF r.error # "" THEN [error |-> r.error, names |-> {}, obj |-> <<>>]
        ELSE IF r.names # {}
        THEN [error |-> "ValidationError", names |-> r.names, obj |-> <<>>]
        ELSE LET made == make_sqlalchemy_object(schema, r.items)
             IN  [error |-> made.error, names |-> {}, obj |-> made.obj]

-----------------------------------------------------------------------------
(* The classes, nested maps and manual fields the schemas are built from *)

A_B == <<"a", "_", "b">>
AB == <<"a", "B">>
ABC == <<"a", "B", "c">>
K_S == <<"k", "_", "s">>
M_F == <<"m", "_", "f">>

Col(name, type, nullable) ==
    [name |-> name, type |-> type, item_type |-> "", nullable |-> nullable]

ArrayCol(name, type, item_type, nullable) ==
    [name |-> name, type |-> type, item_type |-> item_type, nullable |-> nullable]

\* a mapped class with its columns in declaration order and a relationship k_s
Class(name, columns) ==
    [kind |-> "class", name |-> name, columns |-> columns, rels |-> {K_S},
     manual |-> <<>>]

\* an already constructed GoldenSchema (sub)class instance for the class cls
SchemaInstance(cls, manual) == [cls EXCEPT !.kind = "schema", !.manual = manual]

Formula == Class("Formula", <<Col(ID, "Integer", FALSE), Col(A_B, "Integer", TRUE)>>)
CamelFormula == Class("CamelFormula", <<Col(ID, "Integer", FALSE), Col(ABC, "String", TRUE)>>)
Clash == Class("Clash", <<Col(A_B, "String", TRUE), Col(AB, "String", TRUE)>>)
ClashRev == Class("ClashRev", <<Col(AB, "String", TRUE), Col(A_B, "String", TRUE)>>)
Status == Class("Status", <<Col(ID, "Integer", FALSE), Col(A_B, "ENUM", TRUE)>>)
Unsupported == Class("Unsupported", <<Col(ID, "Integer", FALSE), Col(A_B, "Float", TRUE)>>)
UnsupportedItems == Class("UnsupportedItems", <<ArrayCol(A_B, "pgARRAY", "Float", TRUE)>>)
Tags == Class("Tags", <<ArrayCol(A_B, "ARRAY", "Integer", FALSE)>>)
Flags == Class("Flags", <<ArrayCol(A_B, "ARRAY", "ENUM", FALSE), Col(AB, "ENUM", TRUE)>>)

Classes == {Formula, CamelFormula, Clash, ClashRev, Status, Unsupported,
            UnsupportedItems, Tags, Flags}

NestedChoices ==
    {[class |-> Formula, many |-> TRUE],
     [class |-> Formula, many |-> FALSE],
     [class |-> Unsupported, many |-> TRUE],
     [class |-> SchemaInstance(Formula, <<>>), many |-> TRUE],
     [class |-> SchemaInstance(Formula, <<M_F>>), many |-> TRUE]}

RECURSIVE NestedMaps(_)
\* the nested maps of depth at most d: no entry, or one entry for k_s
NestedMaps(d) ==
    IF d = 0 THEN {<<>>}
    ELSE {<<>>} \cup
         {<<[k |-> K_S,
             v |-> [class |-> c.class, many |-> c.many, nested_map |-> nm]]>> :
             c \in NestedChoices, nm \in NestedMaps(d - 1)}

ManualSets == {<<>>, <<M_F, AB>>, <<ID>>}

GoldenArgs ==
    [schema_cls : {"GoldenSchema"}, manual : ManualSets, sqlalchemy_cls : Classes,
     nested_map : NestedMaps(MaxDepth), new_obj : BOOLEAN,
     snake_to_camel : BOOLEAN, camel_to_snake : BOOLEAN]

CaseChangingArgs ==
    [schema_cls : {"CaseChangingSchema"}, manual : ManualSets,
     sqlalchemy_cls : {NoClass}, nested_map : {<<>>}, new_obj : {FALSE},
     snake_to_camel : BOOLEAN, camel_to_snake : BOOLEAN]

NoArgs ==
    [schema_cls |-> "none", manual |-> <<>>, sqlalchemy_cls |-> NoClass,
     nested_map |-> <<>>, new_obj |-> FALSE, snake_to_camel |-> FALSE,
     camel_to_snake |-> FALSE]

\* the constructor call the arguments a describe
New(a) ==
    IF a.schema_cls = "GoldenSchema"
    THEN GoldenSchemaInit(a.manual, a.sqlalchemy_cls, a.nested_map, a.new_obj,
                          a.snake_to_camel, a.camel_to_snake, FALSE)
    ELSE CaseChangingSchemaInit(a.manual, a.snake_to_camel, a.camel_to_snake, FALSE)

-----------------------------------------------------------------------------
(* Instances to encode and mappings to decode *)

Variants == 1..3

\* the value of the i-th column in the variant-th instance; variant 3 leaves
\* every nullable column None
ColumnValue(col, i, variant) ==
    LET first == (variant + i) % 2 = 0 IN
    IF variant = 3 /\ col.nullable THEN None
    ELSE CASE col.type \in {"Integer", "INTEGER", "BIGINT", "Float"} ->
                 Scalar(IF first THEN "1" ELSE "2")
           [] col.type = "ENUM" -> Scalar("E.RED")
           [] col.type \in {"ARRAY", "pgARRAY"} ->
                 IF col.item_type = "ENUM" THEN Scalar("[E.RED]")
                 ELSE Scalar(IF first THEN "[1]" ELSE "[2]")
           [] OTHER -> Scalar(IF first THEN "x" ELSE "y")

RECURSIVE MkObj(_, _, _)
\* an instance of cls with the related objects nested_map names
MkObj(cls, nested_map, variant) ==
    LET cols == [i \in DOMAIN cls.columns |->
                    [k |-> cls.columns[i].name,
                     v |-> ColumnValue(cls.columns[i], i, variant)]]
        rels == [i \in DOMAIN nested_map |->
                    LET val == nested_map[i].v
                        child == MkObj(val.class, val.nested_map, variant)
                    IN  [k |-> nested_map[i].k,
                         v |-> IF val.many
                               THEN ListVal(IF variant = 3 THEN <<>> ELSE <<child>>)
                               ELSE IF variant = 3 THEN None ELSE ObjectVal(child)]]
    IN  Node(cls.name, cols \o rels)

Objects(a) ==
    IF a.schema_cls = "GoldenSchema"
    THEN {MkObj(a.sqlalchemy_cls, a.nested_map, v) : v \in Variants}
    ELSE {Node("object", <<>>)}

DropKey(d, k) == SelectSeq(d, LAMBDA e : e.k # k)

\* the mappings handed to load: what the same schema without new_obj emits
\* for an instance, as it is, less one key, or with one key set to null
Encodings(a) ==
    LET made == New([a EXCEPT !.new_obj = FALSE])
        outs == {Marshal(made.schema[1], o, FALSE) : o \in Objects(a)}
    IN  {r.out : r \in {x \in outs : x.error = ""}}

Inputs(a) ==
    LET base == Encodings(a)
    IN  base
        \cup UNION {{Node("dict", DropKey(m.attrs, k)) : k \in Keys(m.attrs)} :
                       m \in base}
        \cup UNION {{Node("dict", Put(m.attrs, k, None)) : k \in Keys(m.attrs)} :
                       m \in base}

-----------------------------------------------------------------------------
(* The state machine *)

NoDump == [error |-> "", out |-> Node("dict", <<>>), obj |-> Node("object", <<>>),
           rev |-> FALSE]
NoLoad == [error |-> "", names |-> {}, obj |-> <<>>, data |-> Node("dict", <<>>),
           from |-> "none"]
NoCtor == [error |-> "", steps |-> <<>>, schema |-> <<>>]

CaseAlphabet == {"a", "b", "A", "B", "_"}
CaseStrings == UNION {[1..n -> CaseAlphabet] : n \in 0..MaxLen}

InitCase ==
    /\ caseIn \in CaseStrings
    /\ caseOut = caseIn
    /\ caseCalls = <<>>
    /\ args = NoArgs /\ pc = "idle" /\ ctor = NoCtor
    /\ dumped = NoDump /\ loaded = NoLoad

CallCamelcase ==
    /\ Len(caseCalls) < MaxCalls
    /\ caseOut' = camelcase(caseOut)
    /\ caseCalls' = Append(caseCalls, "camelcase")
    /\ UNCHANGED <<caseIn, schemaVars>>

CallSnakecase ==
    /\ Len(caseCalls) < MaxCalls
    /\ caseOut' = snakecase(caseOut)
    /\ caseCalls' = Append(caseCalls, "snakecase")
    /\ UNCHANGED <<caseIn, schemaVars>>

NextCase == CallCamelcase \/ CallSnakecase

SpecCase == InitCase /\ [][NextCase]_vars

Init ==
    /\ args \in GoldenArgs \cup CaseChangingArgs
    /\ pc = "new"
    /\ ctor = NoCtor /\ dumped = NoDump /\ loaded = NoLoad
    /\ caseIn = <<>> /\ caseOut = <<>> /\ caseCalls = <<>>

\* GoldenSchema(...) or a CaseChangingSchema subclass's constructor
Construct ==
    /\ pc = "new"
    /\ ctor' = New(args)
    /\ pc' = IF ctor'.error = "" THEN "ready" ELSE "failed"
    /\ UNCHANGED <<args, dumped, loaded, caseVars>>

\* schema.dump(obj)
Dump ==
    /\ pc = "ready"
    /\ \E obj \in Objects(args), rev \in BOOLEAN :
          LET r == Marshal(ctor.schema[1], obj, rev)
          IN  dumped' = [error |-> r.error, out |-> r.out, obj |-> obj, rev |-> rev]
    /\ pc' = "dumped"
    /\ UNCHANGED <<args, ctor, loaded, caseVars>>

\* schema.load(data) on the mapping the dump before it produced
LoadDumped ==
    /\ pc = "dumped"
    /\ dumped.error = ""
    /\ LET r == Unmarshal(ctor.schema[1], dumped.out)
       IN  loaded' = [error |-> r.error, names |-> r.names, obj |-> r.obj,
                      data |-> dumped.out, from |-> "dump"]
    /\ pc' = "loaded"
    /\ UNCHANGED <<args, ctor, dumped, caseVars>>

\* schema.load(data) on a mapping from outside
Load ==
    /\ pc = "ready"
    /\ \E data \in Inputs(args) :
          LET r == Unmarshal(ctor.schema[1], data)
          IN  loaded' = [error |-> r.error, names |-> r.names, obj |-> r.obj,
                         data |-> data, from |-> "input"]
    /\ pc' = "loaded"
    /\ UNCHANGED <<args, ctor, dumped, caseVars>>

Next == Construct \/ Dump \/ LoadDumped \/ Load

Spec == Init /\ [][Next]_vars

-----------------------------------------------------------------------------
(* Properties of the case converter, checked under SpecCase *)

\* one or more non-empty lowercase words joined by single underscores
IsSnakeIdentifier(s) ==
    /\ Len(s) >= 1
    /\ \A i \in DOMAIN s : IsLower(s[i]) \/ s[i] = "_"
    /\ s[1] # "_" /\ s[Len(s)] # "_"
    /\ \A i \in 1..(Len(s) - 1) : ~(s[i] = "_" /\ s[i + 1] = "_")

\* C1: for every identifier s of lowercase words joined by single
\* underscores, snakecase(camelcase(s)) = s.
C1_RoundTrip ==
    (caseCalls = <<"camelcase", "snakecase">> /\ IsSnakeIdentifier(caseIn))
        => caseOut = caseIn

IsLetters(s) == \A i \in DOMAIN s : IsLower(s[i]) \/ IsUpper(s[i])

\* an uppercase letter directly preceded by a non-uppercase character and
\* directly followed by at least one more character
TakesUnderscore(s, i) ==
    IsUpper(s[i]) /\ i > 1 /\ ~IsUpper(s[i - 1]) /\ i < Len(s)

UnderscoreBeforeUpper(s) ==
    Join([i \in DOMAIN s |-> IF TakesUnderscore(s, i) THEN <<"_", s[i]>> ELSE <<s[i]>>])

\* C10: for every string s over letters, snakecase(s) is the lower-cased
\* result of inserting '_' before every uppercase letter of s that is directly
\* preceded by a non-uppercase character and directly followed by a character.
C10_UnderscoreBeforeEveryUpper ==
    (caseCalls = <<"snakecase">> /\ IsLetters(caseIn))
        => caseOut = Lower(UnderscoreBeforeUpper(caseIn))

\* a segment with only its first character upper-cased
UpperFirst(s) == [i \in DOMAIN s |-> IF i = 1 THEN UpperChar(s[i]) ELSE s[i]]

\* the first '_'-separated segment as it is, then every later segment with
\* its first character upper-cased and its other characters as they are
FirstUpperedSegments(s) ==
    LET parts == Split(s)
    IN  Join([i \in DOMAIN parts |-> IF i > 1 THEN UpperFirst(parts[i]) ELSE parts[i]])

\* C11: for every string s, camelcase(s) is s when s has no '_', and
\* otherwise the first '_'-separated segment unchanged followed by each later
\* segment with only its first character upper-cased and its other
\* characters unchanged, empty segments contributing nothing.
C11_CamelcaseKeepsOtherCharacters ==
    caseCalls = <<"camelcase">> => caseOut = FirstUpperedSegments(caseIn)

-----------------------------------------------------------------------------
(* Properties of the schemas, checked under Spec *)

BothFlags == args.snake_to_camel /\ args.camel_to_snake
IsGolden == args.schema_cls = "GoldenSchema"

\* C2: constructing a CaseChangingSchema or GoldenSchema with both casing
\* flags true fails with the ValueError of the casing check, before any field
\* is generated or renamed; with at most one flag true that check never fails.
C2_CasingConflictFailsFirst ==
    pc # "new" =>
        IF BothFlags
        THEN /\ pc = "failed"
             /\ ctor.error = "ValueError"
             /\ ctor.steps = <<"casing_check">>
             /\ ctor.schema = <<>>
        ELSE /\ ctor.error # "ValueError"
             /\ Len(ctor.steps) >= 3
             /\ SubSeq(ctor.steps, 1, 3) = <<"casing_check", "schema_init", "alter_case">>

C2_Witness ==
    /\ pc = "failed" /\ BothFlags /\ IsGolden
    /\ args.manual # <<>> /\ args.nested_map # <<>>
    /\ ctor.error = "ValueError"

IsManualField(d, m) == Has(d, m) /\ Get(d, m).codec = "fields.Function"

\* C3: after GoldenSchema construction each manually declared field is still
\* in the field map, bound to its manual codec, whatever the casing policy and
\* the attributes of the class.
C3_ManualFieldsKept ==
    (pc = "ready" /\ IsGolden) =>
        \A i \in DOMAIN args.manual :
            /\ IsManualField(ctor.schema[1].declared_fields, args.manual[i])
            /\ IsManualField(ctor.schema[1].fields, args.manual[i])

\* the external name the casing policy of the constructor call gives `name`
Cased(name) ==
    IF args.snake_to_camel THEN camelcase(name)
    ELSE IF args.camel_to_snake THEN snakecase(name)
    ELSE name

InternalName(e) == OrName(e.v.attribute, e.k)

EntryCased(e) ==
    /\ OrName(e.v.dump_to, e.k) = Cased(InternalName(e))
    /\ OrName(e.v.load_from, e.k) = Cased(InternalName(e))

RECURSIVE SchemaCased(_)
\* every field of the schema s, and of the schemas nested in it, has the
\* external key of the root's casing policy, and carries that policy
SchemaCased(s) ==
    /\ s.snake_to_camel = args.snake_to_camel
    /\ s.camel_to_snake = args.camel_to_snake
    /\ \A d \in {s.fields, s.declared_fields} : \A i \in DOMAIN d :
          /\ EntryCased(d[i])
          /\ d[i].v.nested # <<>> => SchemaCased(d[i].v.nested[1])

RECURSIVE OutputCased(_, _)
\* every key of the encoded mapping is the cased name of a field, at any depth
OutputCased(s, node) ==
    \A j \in DOMAIN node.attrs :
        \E i \in DOMAIN s.declared_fields :
            LET e == s.declared_fields[i] IN
            /\ node.attrs[j].k = Cased(InternalName(e))
            /\ e.v.nested # <<>> =>
                   \A n \in DOMAIN node.attrs[j].v.elems :
                       OutputCased(e.v.nested[1], node.attrs[j].v.elems[n])

\* a field's value is decoded from its cased key into its internal name
InputCased(s, data, obj) ==
    \A i \in DOMAIN s.fields :
        Has(data.attrs, Cased(InternalName(s.fields[i])))
            => Has(obj.attrs, InternalName(s.fields[i]))

\* C4: after construction every field, manual or generated, at the root and
\* in every nested schema, is written to and read from camelcase(name) under
\* snake_to_camel, snakecase(name) under camel_to_snake and name otherwise.
C4_ExternalKeysFollowPolicy ==
    /\ pc \in {"ready", "dumped", "loaded"} => SchemaCased(ctor.schema[1])
    /\ (pc = "dumped" /\ dumped.error = "") => OutputCased(ctor.schema[1], dumped.out)
    /\ (pc = "loaded" /\ loaded.error = "")
          => InputCased(ctor.schema[1], loaded.data, loaded.obj[1])

C4_Witness ==
    /\ pc = "dumped" /\ dumped.error = "" /\ IsGolden
    /\ args.snake_to_camel /\ args.manual = <<M_F, AB>>
    /\ Has(dumped.out.attrs, <<"m", "F">>)
    /\ Has(dumped.out.attrs, <<"k", "S">>)
    /\ \E n \in DOMAIN Get(dumped.out.attrs, <<"k", "S">>).elems :
          LET child == Get(dumped.out.attrs, <<"k", "S">>).elems[n]
          IN  Has(child.attrs, AB) /\ Has(child.attrs, <<"k", "S">>)

RECURSIVE NoGeneratedId(_)
\* no field of s, or of a schema nested in s, was generated from 'id'
NoGeneratedId(s) ==
    \A d \in {s.fields, s.declared_fields} : \A i \in DOMAIN d :
        /\ d[i].v.attribute # ID
        /\ d[i].v.nested # <<>> => NoGeneratedId(d[i].v.nested[1])

RECURSIVE NoIdentity(_, _)
\* the instance, and every instance below it, was given no 'id'; at the root
\* only when top is FALSE
NoIdentity(node, top) ==
    /\ top \/ ~Has(node.attrs, ID)
    /\ \A j \in DOMAIN node.attrs : \A n \in DOMAIN node.attrs[j].v.elems :
          NoIdentity(node.attrs[j].v.elems[n], FALSE)

HasColumn(cls, name) == \E i \in DOMAIN cls.columns : cls.columns[i].name = name

RECURSIVE IdGenerated(_)
\* wherever the class has an 'id' column and no manual field of that name,
\* the field generated from it is there
IdGenerated(s) ==
    /\ (HasColumn(s.sqlalchemy_cls, ID) /\ ~IsManualField(s.declared_fields, ID))
          => \A d \in {s.fields, s.declared_fields} :
                Has(d, ID) /\ Get(d, ID).attribute = ID
    /\ \A i \in DOMAIN s.fields :
          s.fields[i].v.nested # <<>> => IdGenerated(s.fields[i].v.nested[1])

HasIdKeys(data) ==
    /\ Has(data.attrs, ID)
    /\ \E j \in DOMAIN data.attrs : \E n \in DOMAIN data.attrs[j].v.elems :
          Has(data.attrs[j].v.elems[n].attrs, ID)

\* C5: with new_obj no field is generated from 'id' in the root or in any
\* nested schema (a manual 'id' field stays), so decoding passes no 'id' to
\* any constructor; without new_obj 'id' is generated like any other column.
C5_NewObjectDropsId ==
    /\ (pc \in {"ready", "dumped", "loaded"} /\ IsGolden /\ args.new_obj)
          => /\ NoGeneratedId(ctor.schema[1])
             /\ \A i \in DOMAIN args.manual :
                   args.manual[i] = ID
                       => IsManualField(ctor.schema[1].declared_fields, ID)
    /\ (pc = "loaded" /\ IsGolden /\ args.new_obj /\ loaded.error = "")
          => NoIdentity(loaded.obj[1], \E i \in DOMAIN args.manual : args.manual[i] = ID)
    /\ (pc \in {"ready", "dumped", "loaded"} /\ IsGolden /\ ~args.new_obj)
          => IdGenerated(ctor.schema[1])

C5_Witness ==
    /\ pc = "loaded" /\ IsGolden /\ args.new_obj /\ args.manual = <<>>
    /\ loaded.from = "input" /\ loaded.error = ""
    /\ HasIdKeys(loaded.data)
    /\ Has(loaded.obj[1].attrs, K_S)
    /\ Get(loaded.obj[1].attrs, K_S).elems # <<>>

\* the fields of the root schema generated from a non-nullable column
RequiredEntries ==
    {e \in {ctor.schema[1].fields[i] : i \in DOMAIN ctor.schema[1].fields} :
        \E j \in DOMAIN args.sqlalchemy_cls.columns :
            /\ args.sqlalchemy_cls.columns[j].name = e.v.attribute
            /\ ~args.sqlalchemy_cls.columns[j].nullable}

\* C6 as stated: decoding a mapping with no key for the external name of a
\* non-nullable attribute raises a ValidationError naming it, and constructs
\* no instance.
C6_MissingKeyRaises ==
    (pc = "loaded" /\ IsGolden) =>
        \A j \in DOMAIN args.sqlalchemy_cls.columns :
            (/\ ~args.sqlalchemy_cls.columns[j].nullable
             /\ ~Has(loaded.data.attrs, Cased(args.sqlalchemy_cls.columns[j].name)))
                => /\ loaded.error = "ValidationError"
                   /\ Cased(args.sqlalchemy_cls.columns[j].name) \in loaded.names
                   /\ loaded.obj = <<>>

\* C6 as amended: for a field generated from a non-nullable attribute a, a
\* null under a's external key raises a ValidationError naming that key and
\* no instance is returned; a mapping with no such key raises no error for a,
\* and a is not passed to the constructor.
C6_NullRaisesMissingDoesNot ==
    (pc = "loaded" /\ IsGolden) =>
        \A e \in RequiredEntries :
            /\ (Has(loaded.data.attrs, e.k) /\ Get(loaded.data.attrs, e.k) = None)
                  => /\ loaded.error = "ValidationError"
                     /\ e.k \in loaded.names
                     /\ loaded.obj = <<>>
            /\ ~Has(loaded.data.attrs, e.k)
                  => /\ e.k \notin loaded.names
                     /\ loaded.error = "" => ~Has(loaded.obj[1].attrs, e.v.attribute)

C6_WitnessMissing ==
    /\ pc = "loaded" /\ IsGolden /\ loaded.error = ""
    /\ \E e \in RequiredEntries :
          ~Has(loaded.data.attrs, e.k) /\ ~Has(loaded.obj[1].attrs, e.v.attribute)

C6_Witness ==
    /\ pc = "loaded" /\ IsGolden /\ loaded.error = "ValidationError"
    /\ \E e \in RequiredEntries :
          Has(loaded.data.attrs, e.k) /\ Get(loaded.data.attrs, e.k) = None

\* an attribute's value, None when the instance was not given it
AttrOf(node, k) == IF Has(node.attrs, k) THEN Get(node.attrs, k) ELSE None

RECURSIVE SameObject(_, _)
\* the same class and, attribute by attribute and related object by related
\* object, the same values
SameObject(a, b) ==
    /\ a.cls = b.cls
    /\ \A k \in Keys(a.attrs) \cup Keys(b.attrs) :
          LET x == AttrOf(a, k)
              y == AttrOf(b, k)
          IN  /\ x.kind = y.kind /\ x.tok = y.tok /\ Len(x.elems) = Len(y.elems)
              /\ \A n \in DOMAIN x.elems : SameObject(x.elems[n], y.elems[n])

\* C7: without new_obj, decode(encode(obj)) constructs an instance of the
\* same class whose attributes and nested objects equal those of obj.
C7_RoundTrip ==
    (pc = "loaded" /\ loaded.from = "dump" /\ IsGolden /\ ~args.new_obj
        /\ args.manual = <<>>)
        => /\ loaded.error = ""
           /\ SameObject(loaded.obj[1], dumped.obj)

RECURSIVE Supported(_, _)
\* every column type of the class, and of the classes the nested map
\* reaches, is a key of the type table
Supported(cls, nested_map) ==
    /\ \A i \in DOMAIN cls.columns :
          /\ cls.columns[i].type \in SqlTypes
          /\ cls.columns[i].type \in {"ARRAY", "pgARRAY"}
                => cls.columns[i].item_type \in SqlTypes
    /\ \A i \in DOMAIN nested_map :
          Supported(nested_map[i].v.class, nested_map[i].v.nested_map)

RECURSIVE NestsInstance(_)
NestsInstance(nested_map) ==
    \E i \in DOMAIN nested_map :
        \/ nested_map[i].v.class.kind = "schema"
        \/ NestsInstance(nested_map[i].v.nested_map)

\* C8: a nested-map entry whose 'class' is an already constructed
\* GoldenSchema instance is accepted: the parent schema is built.
C8_NestedInstanceAccepted ==
    (pc # "new" /\ IsGolden /\ ~BothFlags /\ NestsInstance(args.nested_map)
        /\ Supported(args.sqlalchemy_cls, args.nested_map))
        => pc # "failed" /\ ctor.error = "" /\ ctor.schema # <<>>

ResolvedCodecs == {FIELD_TYPE_MAP[t] : t \in DOMAIN FIELD_TYPE_MAP}

RECURSIVE CodecsResolved(_)
\* every generated field of s and below holds a codec of the type table
CodecsResolved(s) ==
    \A i \in DOMAIN s.fields :
        LET f == s.fields[i].v IN
        /\ f.codec \in ResolvedCodecs \cup {"fields.Function", "fields.Nested"}
        /\ f.codec = "fields.List" => f.container[1].codec \in ResolvedCodecs
        /\ f.nested # <<>> => CodecsResolved(f.nested[1])

\* C9: if a column type, or an array's element type, of the class or of a
\* class reached through the nested map is not in the type table, the
\* construction fails and yields no schema; a constructed schema holds only
\* resolved codecs and no dump or load fails on a type lookup.
C9_UnknownTypeFailsConstruction ==
    /\ (pc # "new" /\ IsGolden /\ ~Supported(args.sqlalchemy_cls, args.nested_map))
          => pc = "failed" /\ ctor.error # "" /\ ctor.schema = <<>>
    /\ pc \in {"ready", "dumped", "loaded"} => CodecsResolved(ctor.schema[1])
    /\ dumped.error # "KeyError" /\ loaded.error # "KeyError"

C9_Witness ==
    /\ pc = "failed" /\ IsGolden /\ ctor.error = "KeyError"
    /\ Supported(args.sqlalchemy_cls, <<>>)
    /\ ~NestsInstance(args.nested_map)
    /\ ~Supported(args.sqlalchemy_cls, args.nested_map)

\* the enumeration fields generated at the root of the schema s
EnumEntries(s) ==
    {i \in DOMAIN s.declared_fields : s.declared_fields[i].v.codec = "EnumField"}

\* what encoding emits for the enumeration value enum
EnumEmitted(enum) == IF enum = None THEN None ELSE Scalar(EnumName(enum.tok))

\* C12: for every enumeration attribute a and every casing policy, encoding
\* an object reads the value from the object's attribute a, the name the
\* field was generated from (the name the enum codec computes from the
\* case-converted key is a), and emits the member's name, or null for None.
C12_EnumReadsOriginalName ==
    (pc = "dumped" /\ IsGolden) =>
        \A i \in EnumEntries(ctor.schema[1]) :
            LET e == ctor.schema[1].declared_fields[i]
                a == e.v.attribute
            IN  /\ EnumAttribute(e.v, e.k) = a
                /\ Has(dumped.obj.attrs, a) =>
                       /\ dumped.error = ""
                       /\ Has(dumped.out.attrs, OrName(e.v.dump_to, e.k))
                       /\ Get(dumped.out.attrs, OrName(e.v.dump_to, e.k))
                              = EnumEmitted(Get(dumped.obj.attrs, a))

====
